---- MODULE Spec2Model ----
(***************************************************************************)
(* VeriScript: the applicant onboarding wizard (OnboardingFlow.tsx), the   *)
(* three analysis services (geminiService.ts), the localStorage profile    *)
(* store (storageService) and the administrator's status update           *)
(* (ApplicantDetails.tsx).                                                 *)
(*                                                                         *)
(* A text is modelled by its length (the code only ever inspects           *)
(* text.length); an absent text or list is the record None.  The external  *)
(* services are modelled by the response they give, drawn from bounded     *)
(* sets: "error" (the call rejects), "empty" (response.text is falsy),     *)
(* "malformed" (JSON.parse throws), "ok" (a parsed body).                  *)
(***************************************************************************)
EXTENDS Integers, Sequences, FiniteSets, TLC

VARIABLES
    step,            \* OnboardingFlow: wizard step 1..5
    loading,         \* OnboardingFlow: loading flag
    progressStatus,  \* OnboardingFlow: progress text
    formData,        \* OnboardingFlow: the WriterProfile being edited
    assessmentText,  \* OnboardingFlow: length of the live assessment text
    startTime,       \* OnboardingFlow: telemetry start time
    pasteCount,      \* OnboardingFlow: paste counter
    uploads,         \* pending FileReader.onload callbacks (their closures)
    attempt,         \* the running submitApplication call (its closure and position)
    store,           \* localStorage[APPLICANTS_KEY]: sequence of WriterProfile
    rubricStore,     \* localStorage[RUBRIC_KEY]
    applicant,       \* ApplicantDetails: the administrator's loaded copy
    now,             \* wall clock (Date.now())
    nextSampleId,    \* generateId(): fresh sample ids
    lastWriter,      \* history: who wrote the store last
    lastOutcome,     \* history: how the last submission attempt ended
    call,            \* a direct call of a service function and its result
    dashboard,       \* AdminDashboard: the rubric being edited (None until mounted)
    invoked          \* history: the external services the last attempt invoked, in order

flowVars == <<step, loading, progressStatus, formData, assessmentText, startTime,
              pasteCount, uploads, attempt, store, rubricStore, applicant, now,
              nextSampleId, lastWriter, lastOutcome, dashboard, invoked>>
vars == <<step, loading, progressStatus, formData, assessmentText, startTime,
          pasteCount, uploads, attempt, store, rubricStore, applicant, now,
          nextSampleId, lastWriter, lastOutcome, call, dashboard, invoked>>

(***************************************************************************)
(* Bounds of the model.                                                    *)
(***************************************************************************)
MaxUploads == 2
MaxPaste == 1
MaxTime == 2
MaxChunks == 7
MaxCriteria == 2
MaxEdits == 3

(***************************************************************************)
(* Optional values: undefined / null is None.                              *)
(***************************************************************************)
None == [present |-> FALSE]
Some(v) == [present |-> TRUE, v |-> v]

(***************************************************************************)
(* types.ts                                                                *)
(***************************************************************************)
ApplicationStatus ==
    {"PROFILE_SUBMITTED", "ASSESSMENT_PENDING", "REVIEWING", "ONBOARDED", "REJECTED"}
Track == {"ACADEMIC", "TECHNICAL", "BOTH"}

(***************************************************************************)
(* IEEE-754 binary64 arithmetic, as far as submitApplication uses it:      *)
(* (earnedPoints / totalPoints) * 100 and Math.round.  A positive double   *)
(* is <<sig, ex>>, its value sig * 2^ex; sig is an integer of at most 53   *)
(* significant bits, held as five digits of 13 bits, least significant     *)
(* first.  Division and multiplication round to nearest, ties to even.     *)
(* Operands stay below 2^17 and results below 2^31.                        *)
(***************************************************************************)
Radix == 2 ^ 13

\* num / den * 2^ex, rescaled so that 1 <= num / den < 2
RECURSIVE Normalize(_, _, _)
Normalize(num, den, ex) ==
    IF num >= 2 * den THEN Normalize(num, 2 * den, ex + 1)
    ELSE IF num < den THEN Normalize(2 * num, den, ex - 1)
    ELSE <<num, den, ex>>

\* the digits with their carries propagated upwards
Carry(digits) ==
    LET v1 == digits[1]
        v2 == digits[2] + (v1 \div Radix)
        v3 == digits[3] + (v2 \div Radix)
        v4 == digits[4] + (v3 \div Radix)
        v5 == digits[5] + (v4 \div Radix)
    IN  <<v1 % Radix, v2 % Radix, v3 % Radix, v4 % Radix, v5>>

\* a / d for integers a, d > 0: 1 + 4 * 13 = 53 quotient bits by long
\* division, then the remainder decides the rounding
DoubleDiv(a, d) ==
    LET nrm == Normalize(a, d, 0)
        den == nrm[2]
        rem0 == nrm[1] - den
        dig1 == (rem0 * Radix) \div den
        rem1 == (rem0 * Radix) % den
        dig2 == (rem1 * Radix) \div den
        rem2 == (rem1 * Radix) % den
        dig3 == (rem2 * Radix) \div den
        rem3 == (rem2 * Radix) % den
        dig4 == (rem3 * Radix) \div den
        rem4 == (rem3 * Radix) % den
        roundsUp == 2 * rem4 > den \/ (2 * rem4 = den /\ dig4 % 2 = 1)
    IN  <<Carry(<<dig4 + (IF roundsUp THEN 1 ELSE 0), dig3, dig2, dig1, 1>>),
          nrm[3] - 52>>

\* x * 100 for a double x: the exact product has 59 or 60 bits, of which the
\* low 6 or 7 are rounded away
DoubleTimes100(x) ==
    LET prod == Carry([k \in 1..5 |-> 100 * x[1][k]])
        lowBits == IF prod[5] < 128 THEN 6 ELSE 7
        low == prod[1] % (2 ^ lowBits)
        half == 2 ^ (lowBits - 1)
        odd == (prod[1] \div (2 ^ lowBits)) % 2 = 1
        roundsUp == low > half \/ (low = half /\ odd)
    IN  <<Carry([prod EXCEPT ![1] = prod[1] - low
                                    + (IF roundsUp THEN 2 ^ lowBits ELSE 0)]),
          x[2]>>

\* digit * 2^shift, rounded down
Shifted(digit, shift) ==
    IF shift >= 0 THEN digit * (2 ^ shift)
    ELSE IF shift <= 0 - 13 THEN 0
    ELSE digit \div (2 ^ (0 - shift))

\* the low `width` bits of a digit
LowBits(digit, width) ==
    IF width <= 0 THEN 0
    ELSE IF width >= 13 THEN digit
    ELSE digit % (2 ^ width)

\* Math.round of the double x > 0, or of -x when negative: Math.round takes
\* a half towards +Infinity
MathRound(x, negative) ==
    LET sig == x[1]
        fracBits == 0 - x[2]
        whole == Shifted(sig[1], 0 - fracBits) + Shifted(sig[2], 13 - fracBits)
                 + Shifted(sig[3], 26 - fracBits) + Shifted(sig[4], 39 - fracBits)
                 + Shifted(sig[5], 52 - fracBits)
        halfAt == fracBits - 1
        half == halfAt >= 0 /\ halfAt < 65
                /\ (sig[(halfAt \div 13) + 1] \div (2 ^ (halfAt % 13))) % 2 = 1
        above == half /\ \E k \in 0..4 : LowBits(sig[k + 1], halfAt - 13 * k) # 0
    IN  IF negative THEN 0 - (whole + (IF above THEN 1 ELSE 0))
        ELSE whole + (IF half THEN 1 ELSE 0)

\* Math.round((earnedPoints / totalPoints) * 100), totalPoints > 0
RoundedPercent(earnedPoints, totalPoints) ==
    IF earnedPoints = 0 THEN 0
    ELSE IF earnedPoints > 0
    THEN MathRound(DoubleTimes100(DoubleDiv(earnedPoints, totalPoints)), FALSE)
    ELSE MathRound(DoubleTimes100(DoubleDiv(0 - earnedPoints, totalPoints)), TRUE)

(***************************************************************************)
(* storageService: the rubric.  A criterion is [id, maxPoints] (category   *)
(* and description are labels nothing computes with).                      *)
(***************************************************************************)
Criterion(id, maxPoints) == [id |-> id, maxPoints |-> maxPoints]

DEFAULT_RUBRIC ==
    <<Criterion(1, 20), Criterion(2, 20), Criterion(3, 30), Criterion(4, 15),
      Criterion(5, 15)>>

\* getRubric that takes a stored empty list for no rubric
getRubricDefaultOnEmpty(stored) ==
    IF stored.present /\ Len(stored.v) > 0 THEN stored.v ELSE DEFAULT_RUBRIC

\* getRubric(): the stored rubric, or the default when none is stored
getRubric(stored) == IF stored.present THEN stored.v ELSE DEFAULT_RUBRIC

(***************************************************************************)
(* geminiService: the three analysis stages.  Each takes its arguments and *)
(* the response the external service would give, and yields                *)
(* [called, threw, value]: whether the service was invoked, whether the    *)
(* promise rejects, and the value it resolves to.                          *)
(***************************************************************************)
MinTextLength == 50

\* the threshold taken one too low
TooShortOffByOne(text) == ~text.present \/ text.v < MinTextLength - 1

\* !text || text.length < 50
TooShort(text) == ~text.present \/ text.v < MinTextLength

Returned(called, value) == [called |-> called, threw |-> FALSE, value |-> value]
Threw == [called |-> TRUE, threw |-> TRUE, value |-> None]

ZeroMetrics ==
    [vocabularyRichness |-> 0, sentenceComplexity |-> 0, passiveVoiceUsage |-> 0,
     tone |-> "N/A", detectedAiProbability |-> 0, consistencyScore |-> 0,
     keyTraits |-> <<>>]

RubricScore(criterionId, score, comments) ==
    [criterionId |-> criterionId, score |-> score, comments |-> comments]

\* the short-text result of analyzeWritingStyle
InsufficientText(rubric) ==
    [metrics |-> ZeroMetrics,
     rubricScores |-> [k \in 1..Len(rubric) |->
                          RubricScore(rubric[k].id, 0, "Insufficient text")],
     hasScores |-> TRUE,
     feedback |-> "Text too short to analyze.",
     summary |-> "Insufficient data."]

\* The style call rejects, or response.text is falsy, or JSON.parse throws:
\* the catch block rethrows
StyleFails(resp) == resp.kind # "ok"

\* the style stage fails, but the error is swallowed and the short-text
\* result returned, the way checkPlagiarism's catch block degrades
analyzeWritingStyleSwallowing(text, rubric, resp) ==
    IF TooShort(text) THEN Returned(FALSE, InsufficientText(rubric))
    ELSE IF StyleFails(resp) THEN Returned(TRUE, InsufficientText(rubric))
    ELSE Returned(TRUE, resp.body)

analyzeWritingStyle(text, rubric, resp) ==
    IF TooShort(text) THEN Returned(FALSE, InsufficientText(rubric))
    ELSE IF StyleFails(resp) THEN Threw
    ELSE Returned(TRUE, resp.body)

TextTooShortToCheck == [score |-> 0, sources |-> <<>>, analysis |-> "Text too short to check."]
PlagiarismCheckError ==
    [score |-> 0, sources |-> <<>>, analysis |-> "Error during plagiarism check."]

\* response.candidates?.[0]?.groundingMetadata?.groundingChunks || []
GroundingChunks(body) == IF body.chunks.present THEN body.chunks.v ELSE <<>>

\* the sources collected with unshift instead of push: the last citation first
RECURSIVE WebSourcesNewestFirst(_)
WebSourcesNewestFirst(chunks) ==
    IF Len(chunks) = 0 THEN <<>>
    ELSE IF Head(chunks).web.present
    THEN WebSourcesNewestFirst(Tail(chunks))
         \o <<[title |-> Head(chunks).web.v.title, uri |-> Head(chunks).web.v.uri]>>
    ELSE WebSourcesNewestFirst(Tail(chunks))

\* chunks.forEach(chunk => { if (chunk.web) sources.push({title, uri}) })
RECURSIVE WebSources(_)
WebSources(chunks) ==
    IF Len(chunks) = 0 THEN <<>>
    ELSE IF Head(chunks).web.present
    THEN <<[title |-> Head(chunks).web.v.title, uri |-> Head(chunks).web.v.uri]>>
         \o WebSources(Tail(chunks))
    ELSE WebSources(Tail(chunks))

Min(x, y) == IF x <= y THEN x ELSE y

\* the score without the cap of 100
UncappedScore(sourceCount) ==
    IF sourceCount > 0 THEN 50 + (sourceCount * 10) ELSE 0

\* calculatedScore: sources.length > 0 ? 50 + sources.length * 10 : 0, at most 100
CalculatedScore(sourceCount) ==
    Min(IF sourceCount > 0 THEN 50 + (sourceCount * 10) ELSE 0, 100)

\* checkPlagiarism whose catch block rethrows, like analyzeWritingStyle's
checkPlagiarismRethrowing(text, resp) ==
    IF TooShort(text) THEN Returned(FALSE, TextTooShortToCheck)
    ELSE IF resp.kind # "ok" THEN Threw
    ELSE LET sources == WebSources(GroundingChunks(resp.body))
         IN  Returned(TRUE,
                      [score |-> CalculatedScore(Len(sources)),
                       sources |-> sources,
                       analysis |-> IF resp.body.text = "" THEN "No analysis provided."
                                    ELSE resp.body.text])

checkPlagiarism(text, resp) ==
    IF TooShort(text) THEN Returned(FALSE, TextTooShortToCheck)
    ELSE IF resp.kind # "ok" THEN Returned(TRUE, PlagiarismCheckError)
    ELSE LET sources == WebSources(GroundingChunks(resp.body))
         IN  Returned(TRUE,
                      [score |-> CalculatedScore(Len(sources)),
                       sources |-> sources,
                       analysis |-> IF resp.body.text = "" THEN "No analysis provided."
                                    ELSE resp.body.text])

NoBaseline == [matchScore |-> 100, reason |-> "No baseline to compare against."]
AnalysisFailed == [matchScore |-> 0, reason |-> "Analysis failed"]

\* the authorship call rejects, or response.text is falsy, or JSON.parse throws
AuthorshipFails(resp) == resp.kind # "ok"

\* compareAuthorship whose catch block rethrows, like analyzeWritingStyle's
compareAuthorshipRethrowing(samples, newText, resp) ==
    IF ~samples.present \/ Len(samples.v) = 0 THEN Returned(FALSE, NoBaseline)
    ELSE IF AuthorshipFails(resp) THEN Threw
    ELSE Returned(TRUE, resp.body)

\* compareAuthorship without the no-baseline return
compareAuthorshipAlwaysCalling(samples, newText, resp) ==
    IF AuthorshipFails(resp) THEN Returned(TRUE, AnalysisFailed)
    ELSE Returned(TRUE, resp.body)

compareAuthorship(samples, newText, resp) ==
    IF ~samples.present \/ Len(samples.v) = 0 THEN Returned(FALSE, NoBaseline)
    ELSE IF AuthorshipFails(resp) THEN Returned(TRUE, AnalysisFailed)
    ELSE Returned(TRUE, resp.body)

(***************************************************************************)
(* submitApplication, lines 114-117: the overall score.                    *)
(***************************************************************************)
RECURSIVE SumMaxPoints(_)
SumMaxPoints(rubric) ==
    IF Len(rubric) = 0 THEN 0 ELSE Head(rubric).maxPoints + SumMaxPoints(Tail(rubric))

RECURSIVE SumScores(_)
SumScores(rubricScores) ==
    IF Len(rubricScores) = 0 THEN 0
    ELSE Head(rubricScores).score + SumScores(Tail(rubricScores))

\* totalPoints > 0 ? Math.round((earnedPoints / totalPoints) * 100) : 0
NormalizedScore(earnedPoints, totalPoints) ==
    IF totalPoints > 0 THEN RoundedPercent(earnedPoints, totalPoints) ELSE 0

(***************************************************************************)
(* storageService: the applicants.  JSON.stringify / JSON.parse is the     *)
(* identity on the profiles of this model (strings, integers, lists).      *)
(***************************************************************************)
RECURSIVE findIndex(_, _, _)
\* applicants.findIndex(p => p.id === id): 1-based, 0 when absent
findIndex(applicants, id, from) ==
    IF from > Len(applicants) THEN 0
    ELSE IF applicants[from].id = id THEN from
    ELSE findIndex(applicants, id, from + 1)

\* saveApplicant that always appends
saveApplicantAppending(applicants, profile) == Append(applicants, profile)

saveApplicant(applicants, profile) ==
    LET existingIndex == findIndex(applicants, profile.id, 1)
    IN  IF existingIndex >= 1 THEN [applicants EXCEPT ![existingIndex] = profile]
        ELSE Append(applicants, profile)

getApplicantById(applicants, id) ==
    LET foundAt == findIndex(applicants, id, 1)
    IN  IF foundAt >= 1 THEN Some(applicants[foundAt]) ELSE None

(***************************************************************************)
(* OnboardingFlow: state after construction.                               *)
(***************************************************************************)
ApplicantId == 1
SubmitMinLength == 100
MsPerSecond == 1000

InitialFormData ==
    [id |-> ApplicantId, fullName |-> "", email |-> "", experienceYears |-> 0,
     bio |-> "", track |-> None, samples |-> <<>>, status |-> "PROFILE_SUBMITTED",
     appliedDate |-> "construction", assessment |-> None]

Idle == [pc |-> "idle"]
NoCall == [fn |-> "none"]

\* a rubric an administrator saved earlier: the default cut down to two criteria
TwoCriteria == <<Criterion(1, 20), Criterion(2, 20)>>

Init ==
    /\ step = 1
    /\ loading = FALSE
    /\ progressStatus = ""
    /\ formData = InitialFormData
    /\ assessmentText = 0
    /\ startTime = 0
    /\ pasteCount = 0
    /\ uploads = <<>>
    /\ attempt = Idle
    /\ store = <<>>
    /\ rubricStore \in {None, Some(TwoCriteria)}
    /\ applicant = None
    /\ now = MsPerSecond
    /\ nextSampleId = 1
    /\ lastWriter = "none"
    /\ lastOutcome = [none |-> TRUE]
    /\ call = NoCall
    /\ dashboard = None
    /\ invoked = <<>>

(***************************************************************************)
(* OnboardingFlow: the wizard's handlers.  A handler run from the page     *)
(* sees the current state; a callback that runs later (FileReader.onload,  *)
(* the rest of submitApplication after an await) sees the state of the     *)
(* render that created it.                                                 *)
(***************************************************************************)
\* the inputs the applicant fills in; experienceYears and bio are optional and
\* stay as constructed
FieldNames == {"fullName", "email"}
FieldValues == {"", "x"}

handleInputChange(name, value) ==
    /\ step = 1
    /\ formData[name] # value
    /\ formData' = [formData EXCEPT ![name] = value]
    /\ UNCHANGED <<step, loading, progressStatus, assessmentText, startTime,
                   pasteCount, uploads, attempt, store, rubricStore, applicant, now,
                   nextSampleId, lastWriter, lastOutcome, call, dashboard, invoked>>

handleTrackSelect(track) ==
    /\ step = 2
    /\ formData' = [formData EXCEPT !.track = Some(track)]
    /\ UNCHANGED <<step, loading, progressStatus, assessmentText, startTime,
                   pasteCount, uploads, attempt, store, rubricStore, applicant, now,
                   nextSampleId, lastWriter, lastOutcome, call, dashboard, invoked>>

saveProgress(status) ==
    LET updatedProfile == [formData EXCEPT !.status = status]
    IN  /\ formData' = updatedProfile
        /\ store' = saveApplicant(store, updatedProfile)

\* nextStep(next, status); status is None when the argument is omitted
nextStep(next, status) ==
    /\ IF status.present THEN saveProgress(status.v)
       ELSE /\ store' = saveApplicant(store, formData)
            /\ UNCHANGED formData
    /\ step' = next
    /\ lastWriter' = "flow"

\* step 1, "Next: Select Track"
NextSelectTrack ==
    /\ step = 1
    /\ formData.fullName # "" /\ formData.email # ""
    /\ nextStep(2, Some("PROFILE_SUBMITTED"))
    /\ UNCHANGED <<loading, progressStatus, assessmentText, startTime, pasteCount,
                   uploads, attempt, rubricStore, applicant, now, nextSampleId,
                   lastOutcome, call, dashboard, invoked>>

\* step 2, "Next: Provide Samples"
NextProvideSamples ==
    /\ step = 2
    /\ formData.track.present
    /\ nextStep(3, None)
    /\ UNCHANGED <<loading, progressStatus, assessmentText, startTime, pasteCount,
                   uploads, attempt, rubricStore, applicant, now, nextSampleId,
                   lastOutcome, call, dashboard, invoked>>

\* handleSampleUpload up to reader.readAsText(file): the onload callback is
\* pending, closed over the formData of this render
handleSampleUpload(file) ==
    /\ step = 3
    /\ Len(uploads) + nextSampleId <= MaxUploads
    /\ uploads' = Append(uploads, [formData |-> formData, file |-> file])
    /\ UNCHANGED <<step, loading, progressStatus, formData, assessmentText, startTime,
                   pasteCount, attempt, store, rubricStore, applicant, now,
                   nextSampleId, lastWriter, lastOutcome, call, dashboard, invoked>>

RemoveAt(seq, at) == SubSeq(seq, 1, at - 1) \o SubSeq(seq, at + 1, Len(seq))

\* reader.onload of the pending upload at position `at`
readerOnload(at) ==
    /\ at \in 1..Len(uploads)
    /\ LET closure == uploads[at]
           newSample == [id |-> nextSampleId, title |-> closure.file.name,
                         content |-> closure.file.text, type |-> "UPLOADED_SAMPLE"]
           updated == [closure.formData EXCEPT
                          !.samples = Append(closure.formData.samples, newSample)]
       IN  /\ formData' = updated
           /\ store' = saveApplicant(store, updated)
    /\ uploads' = RemoveAt(uploads, at)
    /\ nextSampleId' = nextSampleId + 1
    /\ lastWriter' = "flow"
    /\ UNCHANGED <<step, loading, progressStatus, assessmentText, startTime,
                   pasteCount, attempt, rubricStore, applicant, now, lastOutcome,
                   call, dashboard, invoked>>

\* "Next: Take Live Assessment" left enabled without a sample
startAssessmentWithoutSamples ==
    /\ step = 3
    /\ startTime' = now
    /\ nextStep(4, Some("ASSESSMENT_PENDING"))
    /\ UNCHANGED <<loading, progressStatus, assessmentText, pasteCount, uploads,
                   attempt, rubricStore, applicant, now, nextSampleId, lastOutcome,
                   call, dashboard, invoked>>

\* step 3, "Next: Take Live Assessment"
startAssessment ==
    /\ step = 3
    /\ Len(formData.samples) > 0
    /\ startTime' = now
    /\ nextStep(4, Some("ASSESSMENT_PENDING"))
    /\ UNCHANGED <<loading, progressStatus, assessmentText, pasteCount, uploads,
                   attempt, rubricStore, applicant, now, nextSampleId, lastOutcome,
                   call, dashboard, invoked>>

\* the assessment textarea's onChange
setAssessmentText(length) ==
    /\ step = 4
    /\ assessmentText # length
    /\ assessmentText' = length
    /\ UNCHANGED <<step, loading, progressStatus, formData, startTime, pasteCount,
                   uploads, attempt, store, rubricStore, applicant, now, nextSampleId,
                   lastWriter, lastOutcome, call, dashboard, invoked>>

handlePaste ==
    /\ step = 4
    /\ pasteCount < MaxPaste
    /\ pasteCount' = pasteCount + 1
    /\ UNCHANGED <<step, loading, progressStatus, formData, assessmentText, startTime,
                   uploads, attempt, store, rubricStore, applicant, now, nextSampleId,
                   lastWriter, lastOutcome, call, dashboard, invoked>>

\* the wall clock (Date.now(), in milliseconds) advances by a second; the
\* wizard reads it in startAssessment and when it builds newProfile, so only
\* the time that passes on step 4 shows
Tick ==
    /\ step = 4
    /\ now < (MaxTime + 1) * MsPerSecond
    /\ now' = now + MsPerSecond
    /\ UNCHANGED <<step, loading, progressStatus, formData, assessmentText, startTime,
                   pasteCount, uploads, attempt, store, rubricStore, applicant,
                   nextSampleId, lastWriter, lastOutcome, call, dashboard, invoked>>

(***************************************************************************)
(* OnboardingFlow: submitApplication.  It suspends at its three awaits;    *)
(* `attempt` holds its closure (the formData, assessmentText, startTime    *)
(* and pasteCount of the render whose button was clicked), its locals,     *)
(* the await it is suspended at and, as history, the time of the click.    *)
(* A stage function runs up to its own await in the same task as the code  *)
(* before it, so a service is invoked in the step that reaches the stage;   *)
(* `invoked` lists these invocations in order.                              *)
(***************************************************************************)
\* the response of a call that has not settled: whether a stage invokes its
\* service does not depend on it
Unsettled == [kind |-> "unsettled"]

\* the log entry of a stage that was reached: its name when it invokes its
\* service, nothing when it returns without the call
Invocation(stage, reached) == IF reached.called THEN <<stage>> ELSE <<>>

getPromptForTrack(track) ==
    IF track = Some("TECHNICAL") THEN "recursion"
    ELSE IF track = Some("ACADEMIC") THEN "remote work"
    ELSE "ethics of AI"

\* a catch block that starts the pipeline again instead of giving up
submissionRetried ==
    /\ attempt' = [attempt EXCEPT !.pc = "style", !.assessmentAnalysis = None,
                                  !.plagiarismResult = None]
    /\ progressStatus' = "Analyzing writing style & rubric scoring..."
    /\ invoked' = invoked \o <<"style">>
    /\ UNCHANGED <<step, loading, store, lastWriter, lastOutcome>>

\* a failure path that leaves the loading flag and the progress text set
submissionFailedStillLoading ==
    /\ attempt' = Idle
    /\ lastOutcome' = [failed |-> attempt.pc]
    /\ UNCHANGED <<step, store, lastWriter, invoked, loading, progressStatus>>

\* the catch block (console.error, alert) and the finally block
submissionFailed ==
    /\ loading' = FALSE
    /\ progressStatus' = ""
    /\ attempt' = Idle
    /\ lastOutcome' = [failed |-> attempt.pc]
    /\ UNCHANGED <<step, store, lastWriter, invoked>>

\* "Submit Application" with a button that stays enabled while loading
submitApplicationWhileLoading ==
    /\ step = 4
    /\ assessmentText >= SubmitMinLength
    /\ formData.fullName # "" /\ formData.email # "" /\ formData.track.present
    /\ loading' = TRUE
    /\ progressStatus' = "Analyzing writing style & rubric scoring..."
    /\ attempt' = [pc |-> "style", formData |-> formData, text |-> assessmentText,
                   startTime |-> startTime, pasteCount |-> pasteCount,
                   submittedAt |-> now,
                   currentRubric |-> getRubric(rubricStore),
                   assessmentAnalysis |-> None, plagiarismResult |-> None]
    /\ lastOutcome' = [running |-> TRUE]
    /\ invoked' = Invocation("style", analyzeWritingStyle(Some(assessmentText),
                                           getRubric(rubricStore), Unsettled))
    /\ UNCHANGED <<step, formData, assessmentText, startTime, pasteCount, uploads,
                   store, rubricStore, applicant, now, nextSampleId, lastWriter, call,
                   dashboard>>

\* "Submit Application" up to the first await
submitApplication ==
    /\ step = 4
    /\ assessmentText >= SubmitMinLength /\ ~loading
    /\ formData.fullName # "" /\ formData.email # "" /\ formData.track.present
    /\ loading' = TRUE
    /\ progressStatus' = "Analyzing writing style & rubric scoring..."
    /\ attempt' = [pc |-> "style", formData |-> formData, text |-> assessmentText,
                   startTime |-> startTime, pasteCount |-> pasteCount,
                   submittedAt |-> now,
                   currentRubric |-> getRubric(rubricStore),
                   assessmentAnalysis |-> None, plagiarismResult |-> None]
    /\ lastOutcome' = [running |-> TRUE]
    /\ invoked' = Invocation("style", analyzeWritingStyle(Some(assessmentText),
                                           getRubric(rubricStore), Unsettled))
    /\ UNCHANGED <<step, formData, assessmentText, startTime, pasteCount, uploads,
                   store, rubricStore, applicant, now, nextSampleId, lastWriter, call,
                   dashboard>>

\* await analyzeWritingStyle(assessmentText, currentRubric) settles
styleSettles(resp) ==
    /\ attempt.pc = "style"
    /\ LET settled == analyzeWritingStyle(Some(attempt.text), attempt.currentRubric, resp)
       IN  IF settled.threw THEN submissionFailed
           ELSE /\ attempt' = [attempt EXCEPT !.pc = "plagiarism",
                                              !.assessmentAnalysis = settled.value]
                /\ progressStatus' = "Checking for plagiarism..."
                /\ invoked' = invoked \o Invocation("plagiarism",
                                   checkPlagiarism(Some(attempt.text), Unsettled))
                /\ UNCHANGED <<step, loading, store, lastWriter, lastOutcome>>
    /\ UNCHANGED <<formData, assessmentText, startTime, pasteCount, uploads,
                   rubricStore, applicant, now, nextSampleId, call, dashboard>>

\* await checkPlagiarism(assessmentText) settles
plagiarismSettles(resp) ==
    /\ attempt.pc = "plagiarism"
    /\ LET settled == checkPlagiarism(Some(attempt.text), resp)
       IN  IF settled.threw THEN submissionFailed
           ELSE /\ attempt' = [attempt EXCEPT !.pc = "authorship",
                                              !.plagiarismResult = settled.value]
                /\ progressStatus' = "Verifying authorship..."
                /\ invoked' = invoked \o Invocation("authorship",
                                   compareAuthorship(Some(attempt.formData.samples),
                                                     Some(attempt.text), Unsettled))
                /\ UNCHANGED <<step, loading, store, lastWriter, lastOutcome>>
    /\ UNCHANGED <<formData, assessmentText, startTime, pasteCount, uploads,
                   rubricStore, applicant, now, nextSampleId, call, dashboard>>

\* the AssessmentResult with the analysis' summary stored as its feedback
AssessmentResultBySummary(analysis, plagiarismResult, authorshipCheck, rubric, elapsedMs, pastes) ==
    [overallScore |-> NormalizedScore(SumScores(analysis.rubricScores),
                                       SumMaxPoints(rubric)),
     rubricScores |-> analysis.rubricScores,
     plagiarism |-> plagiarismResult,
     feedback |-> analysis.summary,
     authorshipMatchScore |-> authorshipCheck.matchScore,
     metrics |-> analysis.metrics,
     timeTakenSeconds |-> elapsedMs \div MsPerSecond,
     pasteCount |-> pastes]

\* the AssessmentResult of lines 125-134
AssessmentResult(analysis, plagiarismResult, authorshipCheck, rubric, elapsedMs, pastes) ==
    [overallScore |-> NormalizedScore(SumScores(analysis.rubricScores),
                                       SumMaxPoints(rubric)),
     rubricScores |-> analysis.rubricScores,
     plagiarism |-> plagiarismResult,
     feedback |-> analysis.feedback,
     authorshipMatchScore |-> authorshipCheck.matchScore,
     metrics |-> analysis.metrics,
     timeTakenSeconds |-> elapsedMs \div MsPerSecond,
     pasteCount |-> pastes]

\* newProfile as submitApplication would build it, but with its result left null
NewProfileWithoutResult(closure, plagiarismResult, authorshipCheck, clock, endClock) ==
    [closure.formData EXCEPT
        !.status = "REVIEWING",
        !.assessment = Some([taskPrompt |-> getPromptForTrack(closure.formData.track),
                             submission |-> closure.text,
                             result |-> None,
                             meta |-> [startTime |-> closure.startTime,
                                       endTime |-> endClock,
                                       pasteCount |-> closure.pasteCount]])]

\* newProfile stored as already onboarded
NewProfileOnboarded(closure, plagiarismResult, authorshipCheck, clock, endClock) ==
    [NewProfileWithoutResult(closure, plagiarismResult, authorshipCheck, clock, endClock)
        EXCEPT !.status = "ONBOARDED"]

\* newProfile reading the paste counter as it is when the stages have returned
NewProfileLivePasteCount(closure, plagiarismResult, authorshipCheck, clock, endClock) ==
    [closure.formData EXCEPT
        !.status = "REVIEWING",
        !.assessment = Some([taskPrompt |-> getPromptForTrack(closure.formData.track),
                             submission |-> closure.text,
                             result |-> Some(AssessmentResult(
                                 closure.assessmentAnalysis, plagiarismResult,
                                 authorshipCheck, closure.currentRubric,
                                 clock - closure.startTime, pasteCount)),
                             meta |-> [startTime |-> closure.startTime,
                                       endTime |-> endClock,
                                       pasteCount |-> pasteCount]])]

\* newProfile of lines 119-141; Date.now() is read once for timeTakenSeconds
\* (clock) and once more for meta.endTime (endClock)
NewProfile(closure, plagiarismResult, authorshipCheck, clock, endClock) ==
    [closure.formData EXCEPT
        !.status = "REVIEWING",
        !.assessment = Some([taskPrompt |-> getPromptForTrack(closure.formData.track),
                             submission |-> closure.text,
                             result |-> Some(AssessmentResult(
                                 closure.assessmentAnalysis, plagiarismResult,
                                 authorshipCheck, closure.currentRubric,
                                 clock - closure.startTime, closure.pasteCount)),
                             meta |-> [startTime |-> closure.startTime,
                                       endTime |-> endClock,
                                       pasteCount |-> closure.pasteCount]])]

\* what Date.now() gives when it is read again right after it gave `clock`:
\* the same millisecond, or the next
LaterReadings(clock) == {clock, clock + 1}

\* await compareAuthorship(formData.samples || [], assessmentText) settles; the
\* rest of the try block runs.  A parsed analysis without a rubricScores
\* array makes rubricScores.reduce throw.
authorshipSettles(resp) ==
    /\ attempt.pc = "authorship"
    /\ LET settled == compareAuthorship(Some(attempt.formData.samples),
                                        Some(attempt.text), resp)
       IN  IF settled.threw \/ ~attempt.assessmentAnalysis.hasScores
           THEN submissionFailed /\ UNCHANGED now
           ELSE /\ \E endClock \in LaterReadings(now) :
                     /\ now' = endClock
                     /\ store' = saveApplicant(store, NewProfile(attempt,
                                     attempt.plagiarismResult, settled.value, now,
                                     endClock))
                /\ step' = 5
                /\ loading' = FALSE
                /\ progressStatus' = ""
                /\ attempt' = Idle
                /\ lastWriter' = "flow"
                /\ lastOutcome' = [saved |-> TRUE]
                /\ UNCHANGED invoked
    /\ UNCHANGED <<formData, assessmentText, startTime, pasteCount, uploads,
                   rubricStore, applicant, nextSampleId, call, dashboard>>

(***************************************************************************)
(* ApplicantDetails: the administrator's page.                             *)
(***************************************************************************)
\* useEffect on mount: setApplicant(getApplicantById(id))
loadApplicant(id) ==
    /\ applicant' = getApplicantById(store, id)
    /\ applicant' # applicant
    /\ UNCHANGED <<step, loading, progressStatus, formData, assessmentText, startTime,
                   pasteCount, uploads, attempt, store, rubricStore, now, nextSampleId,
                   lastWriter, lastOutcome, call, dashboard, invoked>>

updateStatus(newStatus) ==
    /\ applicant.present
    /\ LET updated == [applicant.v EXCEPT !.status = newStatus]
       IN  /\ store' = saveApplicant(store, updated)
           /\ applicant' = Some(updated)
    /\ lastWriter' = "admin"
    /\ UNCHANGED <<step, loading, progressStatus, formData, assessmentText, startTime,
                   pasteCount, uploads, attempt, rubricStore, now, nextSampleId,
                   lastOutcome, call, dashboard, invoked>>

(***************************************************************************)
(* The inputs: what the applicant types and uploads, and what the          *)
(* external services answer.                                               *)
(***************************************************************************)
Failures == {[kind |-> "error"], [kind |-> "empty"], [kind |-> "malformed"]}
Ok(body) == [kind |-> "ok", body |-> body]

ServiceMetrics ==
    [vocabularyRichness |-> 70, sentenceComplexity |-> 60, passiveVoiceUsage |-> 10,
     tone |-> "formal", detectedAiProbability |-> 20, consistencyScore |-> 80,
     keyTraits |-> <<"concise">>]

\* a parsed style response with the given scores, criterion k scored under id k
StyleBody(scores) ==
    [metrics |-> ServiceMetrics,
     rubricScores |-> [k \in 1..Len(scores) |-> RubricScore(k, scores[k], "ok")],
     hasScores |-> TRUE,
     feedback |-> "feedback",
     summary |-> "summary"]

\* a parsed style response that lacks the rubricScores array
StyleBodyWithoutScores ==
    [metrics |-> ServiceMetrics, rubricScores |-> <<>>, hasScores |-> FALSE,
     feedback |-> "feedback", summary |-> "summary"]

EndToEndScores == <<18, 16, 25, 10, 12>>

\* what the style service answers in the wizard: a failure, the scores of the
\* end-to-end scenario, every criterion five points over its maximum, or a
\* body without scores
FlowStyleResponses(rubric) ==
    Failures
    \cup {Ok(StyleBody([k \in 1..Len(rubric) |-> EndToEndScores[k]])),
          Ok(StyleBody([k \in 1..Len(rubric) |-> rubric[k].maxPoints + 5])),
          Ok(StyleBodyWithoutScores)}

WebChunk(k) == [web |-> Some([title |-> k, uri |-> k])]
OtherChunk == [web |-> None]

\* a grounded response: chunk k cites the web where isWeb[k]
PlagiarismBody(isWeb, text) ==
    [chunks |-> Some([k \in 1..Len(isWeb) |-> IF isWeb[k] THEN WebChunk(k) ELSE OtherChunk]),
     text |-> text]
PlagiarismBodyWithoutMetadata(text) == [chunks |-> None, text |-> text]

FlowPlagiarismResponses ==
    Failures \cup {Ok(PlagiarismBody(<<TRUE, FALSE, TRUE>>, "found"))}

AuthorshipBodies == {[matchScore |-> 85, reason |-> "same author"]}
FlowAuthorshipResponses == Failures \cup {Ok(body) : body \in AuthorshipBodies}

Files == {[name |-> "a.txt", text |-> 200]}
AssessmentLengths == {0, 100}
TracksOffered == {"TECHNICAL", "BOTH"}

(***************************************************************************)
(* The applicant's wizard.                                                 *)
(***************************************************************************)
Next ==
    \/ \E name \in FieldNames, value \in FieldValues :
          handleInputChange(name, value)
    \/ \E track \in TracksOffered : handleTrackSelect(track)
    \/ NextSelectTrack
    \/ NextProvideSamples
    \/ \E file \in Files : handleSampleUpload(file)
    \/ \E at \in 1..MaxUploads : readerOnload(at)
    \/ startAssessment
    \/ \E length \in AssessmentLengths : setAssessmentText(length)
    \/ handlePaste
    \/ Tick
    \/ submitApplication
    \/ /\ attempt.pc = "style"
       /\ \E resp \in FlowStyleResponses(attempt.currentRubric) : styleSettles(resp)
    \/ \E resp \in FlowPlagiarismResponses : plagiarismSettles(resp)
    \/ \E resp \in FlowAuthorshipResponses : authorshipSettles(resp)

Spec == Init /\ [][Next]_vars

(***************************************************************************)
(* The wizard when every call of an external service eventually returns   *)
(* or fails: an await that is pending is eventually resumed.  The wizard   *)
(* resumes from the await of compareAuthorship exactly when it is          *)
(* suspended there, so that await's fairness is stated by its effect: the  *)
(* attempt is not suspended there for ever.  The telemetry (the clock and  *)
(* the paste counter) is left at rest.                                     *)
(***************************************************************************)
StyleReturns ==
    /\ attempt.pc = "style"
    /\ \E resp \in FlowStyleResponses(attempt.currentRubric) : styleSettles(resp)
PlagiarismReturns == \E resp \in FlowPlagiarismResponses : plagiarismSettles(resp)
AuthorshipReturns == \E resp \in FlowAuthorshipResponses : authorshipSettles(resp)

FairNext ==
    \/ \E name \in FieldNames, value \in FieldValues :
          handleInputChange(name, value)
    \/ \E track \in TracksOffered : handleTrackSelect(track)
    \/ NextSelectTrack
    \/ NextProvideSamples
    \/ \E file \in Files : handleSampleUpload(file)
    \/ \E at \in 1..MaxUploads : readerOnload(at)
    \/ startAssessment
    \/ \E length \in AssessmentLengths : setAssessmentText(length)
    \/ submitApplication
    \/ StyleReturns
    \/ PlagiarismReturns
    \/ AuthorshipReturns

\* the wizard with its telemetry at rest, the awaits free to stay pending
FlowSpec == Init /\ [][FairNext]_vars

FairSpec ==
    /\ Init
    /\ [][FairNext]_vars
    /\ WF_vars(StyleReturns)
    /\ WF_vars(PlagiarismReturns)
    /\ []<>(attempt.pc # "authorship")

(***************************************************************************)
(* The wizard together with the administrator's page.  The telemetry (the  *)
(* clock and the paste counter) is left at rest here.                      *)
(***************************************************************************)
AdminNext ==
    \/ \E name \in FieldNames, value \in FieldValues :
          handleInputChange(name, value)
    \/ \E track \in TracksOffered : handleTrackSelect(track)
    \/ NextSelectTrack
    \/ NextProvideSamples
    \/ \E file \in Files : handleSampleUpload(file)
    \/ \E at \in 1..MaxUploads : readerOnload(at)
    \/ startAssessment
    \/ \E length \in AssessmentLengths : setAssessmentText(length)
    \/ submitApplication
    \/ /\ attempt.pc = "style"
       /\ \E resp \in FlowStyleResponses(attempt.currentRubric) : styleSettles(resp)
    \/ \E resp \in FlowPlagiarismResponses : plagiarismSettles(resp)
    \/ \E resp \in FlowAuthorshipResponses : authorshipSettles(resp)
    \/ loadApplicant(ApplicantId)
    \/ \E status \in ApplicationStatus : updateStatus(status)

AdminSpec == Init /\ [][AdminNext]_vars

(***************************************************************************)
(* The service functions and the score computation called directly, on     *)
(* every argument and response of the bounded sets below; `call` records   *)
(* the one call of a behaviour and what it gave.                           *)
(***************************************************************************)
SeqsUpTo(S, maxLen) == UNION {[1..len -> S] : len \in 0..maxLen}

Texts == {None} \cup {Some(len) : len \in {0, MinTextLength - 1, MinTextLength,
                                             SubmitMinLength}}
PointValues == {0, 20}
Rubrics ==
    {DEFAULT_RUBRIC}
    \cup SeqsUpTo({Criterion(id, maxPoints) : id \in 1..MaxCriteria,
                                               maxPoints \in PointValues}, MaxCriteria)
ScoreValues == {0 - 5, 0, 11, 12, 25}
ScoreLists == {EndToEndScores} \cup SeqsUpTo(ScoreValues, MaxCriteria)
StyleResponses ==
    Failures \cup {Ok(StyleBody(scores)) : scores \in ScoreLists}
             \cup {Ok(StyleBodyWithoutScores)}
AnalysisTexts == {"", "found"}
PlagiarismResponses ==
    Failures
    \cup {Ok(PlagiarismBodyWithoutMetadata(text)) : text \in AnalysisTexts}
    \cup {Ok(PlagiarismBody(isWeb, text)) :
             isWeb \in SeqsUpTo(BOOLEAN, MaxChunks), text \in AnalysisTexts}
Sample(id) == [id |-> id, title |-> "a.txt", content |-> 200, type |-> "UPLOADED_SAMPLE"]
SampleLists == {None, Some(<<>>), Some(<<Sample(1)>>), Some(<<Sample(1), Sample(2)>>)}
AuthorshipResponses ==
    Failures \cup {Ok([matchScore |-> score, reason |-> "same author"]) : score \in {0, 85, 100}}

callAnalyzeWritingStyle(text, rubric, resp) ==
    /\ call = NoCall
    /\ call' = [fn |-> "analyzeWritingStyle", text |-> text, rubric |-> rubric,
                resp |-> resp, result |-> analyzeWritingStyle(text, rubric, resp)]
    /\ UNCHANGED flowVars

callCheckPlagiarism(text, resp) ==
    /\ call = NoCall
    /\ call' = [fn |-> "checkPlagiarism", text |-> text, resp |-> resp,
                result |-> checkPlagiarism(text, resp)]
    /\ UNCHANGED flowVars

callCompareAuthorship(samples, newText, resp) ==
    /\ call = NoCall
    /\ call' = [fn |-> "compareAuthorship", samples |-> samples, text |-> newText,
                resp |-> resp, result |-> compareAuthorship(samples, newText, resp)]
    /\ UNCHANGED flowVars

\* lines 115-117 of submitApplication on a rubric and the scores returned
callNormalizedScore(rubric, scores) ==
    /\ call = NoCall
    /\ call' = [fn |-> "normalizedScore", rubric |-> rubric, scores |-> scores,
                totalPoints |-> SumMaxPoints(rubric),
                earnedPoints |-> SumScores(StyleBody(scores).rubricScores),
                result |-> NormalizedScore(SumScores(StyleBody(scores).rubricScores),
                                           SumMaxPoints(rubric))]
    /\ UNCHANGED flowVars

\* lines 114-136 of submitApplication run twice on the same stage outputs,
\* rubric and telemetry; each run reads Date.now() for itself, the second
\* no earlier than the first
callAggregate(stages, rubric, started, pastes, firstClock, secondClock) ==
    /\ call = NoCall
    /\ firstClock >= started /\ secondClock >= firstClock
    /\ call' = [fn |-> "aggregate", started |-> started,
                firstClock |-> firstClock, secondClock |-> secondClock,
                first |-> AssessmentResult(stages.analysis, stages.plagiarismResult,
                                           stages.authorshipCheck, rubric,
                                           firstClock - started, pastes),
                second |-> AssessmentResult(stages.analysis, stages.plagiarismResult,
                                            stages.authorshipCheck, rubric,
                                            secondClock - started, pastes)]
    /\ UNCHANGED flowVars

ClockReadings == {second * MsPerSecond : second \in 1..(MaxTime + 1)}

ServiceNext ==
    \/ /\ call = NoCall
       /\ \E text \in Texts, rubric \in Rubrics, resp \in StyleResponses :
              callAnalyzeWritingStyle(text, rubric, resp)
    \/ /\ call = NoCall
       /\ \E text \in Texts, resp \in PlagiarismResponses : callCheckPlagiarism(text, resp)
    \/ /\ call = NoCall
       /\ \E samples \in SampleLists, text \in Texts, resp \in AuthorshipResponses :
              callCompareAuthorship(samples, text, resp)
    \/ /\ call = NoCall
       /\ \E rubric \in Rubrics, scores \in ScoreLists : callNormalizedScore(rubric, scores)
    \/ /\ call = NoCall
       /\ \E authorshipCheck \in {NoBaseline, AnalysisFailed}, pastes \in 0..MaxPaste,
             started \in ClockReadings, firstClock \in ClockReadings,
             secondClock \in ClockReadings :
              callAggregate([analysis |-> StyleBody(EndToEndScores),
                             plagiarismResult |-> PlagiarismCheckError,
                             authorshipCheck |-> authorshipCheck],
                            DEFAULT_RUBRIC, started, pastes, firstClock, secondClock)

ServiceSpec == Init /\ [][ServiceNext]_vars

(***************************************************************************)
(* storageService called directly, and AdminDashboard's rubric editor.     *)
(* The editor's rubric is component state: it is read from the store when  *)
(* the dashboard mounts and written back only by "Save Rubric".  `edits`   *)
(* counts the editing operations since the mount.                          *)
(***************************************************************************)
applicantVars == <<step, loading, progressStatus, formData, assessmentText, startTime,
                   pasteCount, uploads, attempt, applicant, now, nextSampleId,
                   lastOutcome, call, invoked>>

\* localStorage.setItem(RUBRIC_KEY, JSON.stringify(rubric))
saveRubric(stored, rubric) == Some(rubric)

clearAll ==
    /\ store' = <<>>
    /\ rubricStore' = None
    /\ UNCHANGED <<applicantVars, lastWriter, dashboard>>

\* saveApplicant(profile) called on its own
putApplicant(profile) ==
    /\ store' = saveApplicant(store, profile)
    /\ UNCHANGED <<applicantVars, rubricStore, lastWriter, dashboard>>

\* useEffect on mount: setRubric(getRubric())
mountDashboard ==
    /\ dashboard = None
    /\ dashboard' = Some([rubric |-> getRubric(rubricStore), edits |-> 0])
    /\ UNCHANGED <<applicantVars, store, rubricStore, lastWriter>>

Edited(rubric) ==
    /\ dashboard.present
    /\ dashboard.v.edits < MaxEdits
    /\ dashboard' = Some([rubric |-> rubric, edits |-> dashboard.v.edits + 1])
    /\ UNCHANGED <<applicantVars, store, rubricStore, lastWriter>>

\* rubric.map(r => r.id === id ? { ...r, [field]: value } : r)
handleRubricChange(id, field, value) ==
    /\ dashboard.present
    /\ Edited([at \in 1..Len(dashboard.v.rubric) |->
                  IF dashboard.v.rubric[at].id = id
                  THEN [dashboard.v.rubric[at] EXCEPT ![field] = value]
                  ELSE dashboard.v.rubric[at]])

RECURSIVE MaxId(_)
\* Math.max(...rubric.map(r => parseInt(r.id) || 0), 0)
MaxId(rubric) ==
    IF Len(rubric) = 0 THEN 0
    ELSE LET rest == MaxId(Tail(rubric))
         IN  IF Head(rubric).id > rest THEN Head(rubric).id ELSE rest

NewCriterionPoints == 10

\* a new id taken from the number of criteria instead of the largest id
addRubricItemByCount ==
    /\ dashboard.present
    /\ Edited(Append(dashboard.v.rubric,
                     Criterion(Len(dashboard.v.rubric) + 1, NewCriterionPoints)))

addRubricItem ==
    /\ dashboard.present
    /\ Edited(Append(dashboard.v.rubric,
                     Criterion(MaxId(dashboard.v.rubric) + 1, NewCriterionPoints)))

\* rubric.filter(r => r.id !== id)
deleteRubricItem(id) ==
    /\ dashboard.present
    /\ Edited(SelectSeq(dashboard.v.rubric, LAMBDA criterion : criterion.id # id))

saveRubricSettings ==
    /\ dashboard.present
    /\ rubricStore' = saveRubric(rubricStore, dashboard.v.rubric)
    /\ UNCHANGED <<applicantVars, store, lastWriter, dashboard>>

\* the ids shown in the editor
ShownIds == IF dashboard.present
            THEN {dashboard.v.rubric[at].id : at \in 1..Len(dashboard.v.rubric)}
            ELSE {}

\* what the administrator types into "Max Pts"
PointEdits == {0, 10}

RubricNext ==
    \/ mountDashboard
    \/ \E id \in ShownIds, value \in PointEdits : handleRubricChange(id, "maxPoints", value)
    \/ addRubricItem
    \/ \E id \in ShownIds : deleteRubricItem(id)
    \/ saveRubricSettings
    \/ clearAll

RubricSpec == Init /\ [][RubricNext]_vars

\* the profiles handed to saveApplicant
ProfileIds == 1..3
Profiles ==
    {[InitialFormData EXCEPT !.id = id, !.status = status] :
        id \in ProfileIds, status \in {"PROFILE_SUBMITTED", "REVIEWING"}}

StoreNext ==
    \/ \E profile \in Profiles : putApplicant(profile)
    \/ clearAll

StoreSpec == Init /\ [][StoreNext]_vars

(***************************************************************************)
(* Properties.                                                             *)
(***************************************************************************)
\* the applicant's record in the profile store
Stored == getApplicantById(store, ApplicantId)

HasResult(profile) == profile.assessment.present /\ profile.assessment.v.result.present

\* C1: when the style service fails during a submission, the step that
\* observes the failure ends the attempt with the error surfaced, writes
\* nothing to the profile store and leaves the wizard on step 4; starting the
\* attempt writes nothing either.
C1_StyleFailurePersistsNothing ==
    [][/\ (\E resp \in Failures : styleSettles(resp))
          => /\ store' = store
             /\ step = 4 /\ step' = 4
             /\ attempt' = Idle
             /\ lastOutcome' = [failed |-> "style"]
             /\ ~loading'
       /\ submitApplication => store' = store]_vars

\* an attempt failed at the style stage; the stored record is still the one
\* startAssessment saved, without an assessment
C1_Witness ==
    /\ lastOutcome = [failed |-> "style"]
    /\ step = 4
    /\ Stored.present
    /\ Stored.v.status = "ASSESSMENT_PENDING"
    /\ ~Stored.v.assessment.present

\* C2: a failure of the plagiarism service never aborts a submission: the
\* attempt goes on to the authorship stage with the degraded result, and when
\* the attempt then completes (the style response had its scores) the saved
\* record carries a complete result whose plagiarism field is that value.
C2_PlagiarismFailureDegrades ==
    [][/\ (\E resp \in Failures : plagiarismSettles(resp))
          => /\ attempt'.pc = "authorship"
             /\ attempt'.plagiarismResult = PlagiarismCheckError
             /\ lastOutcome' = [running |-> TRUE]
             /\ store' = store
       /\ (/\ attempt.pc = "authorship"
           /\ attempt.plagiarismResult = PlagiarismCheckError
           /\ attempt.assessmentAnalysis.hasScores
           /\ attempt' = Idle)
          => /\ lastOutcome' = [saved |-> TRUE]
             /\ step' = 5
             /\ Stored'.present
             /\ Stored'.v.status = "REVIEWING"
             /\ HasResult(Stored'.v)
             /\ Stored'.v.assessment.v.result.v.plagiarism = PlagiarismCheckError
             /\ Stored'.v.assessment.v.result.v.rubricScores
                    = attempt.assessmentAnalysis.rubricScores]_vars

\* a submission was saved whose plagiarism check had failed
C2_Witness ==
    /\ lastOutcome = [saved |-> TRUE]
    /\ Stored.present
    /\ HasResult(Stored.v)
    /\ Stored.v.assessment.v.result.v.plagiarism = PlagiarismCheckError

ExactRoundedPercent(earnedPoints, totalPoints) ==
    (200 * earnedPoints + totalPoints) \div (2 * totalPoints)

\* C4: the normalized score is 100 * earned / total rounded to the nearest
\* integer with halves rounded up when the rubric's total is positive, and 0
\* otherwise.
C4_OverallScoreIsExactRounding ==
    call.fn = "normalizedScore"
    => call.result = IF call.totalPoints > 0
                     THEN ExactRoundedPercent(call.earnedPoints, call.totalPoints)
                     ELSE 0

ShortText(text) == ~text.present \/ text.v < 50

C8_NoBaselineShortCircuits ==
    (call.fn = "compareAuthorship" /\ (~call.samples.present \/ Len(call.samples.v) = 0))
    => /\ ~call.result.called
       /\ ~call.result.threw
       /\ call.result.value = [matchScore |-> 100,
                               reason |-> "No baseline to compare against."]

\* compareAuthorship on an empty list, a long text and a service that would
\* have failed
C8_Witness ==
    /\ call.fn = "compareAuthorship"
    /\ call.samples = Some(<<>>)
    /\ call.text = Some(100)
    /\ call.resp.kind = "error"
    /\ call.result.value.matchScore = 100

\* C5: every persisted result has an overall score between 0 and 100 (every
\* rubric a submission reads here has a positive total).
C5_PersistedScoreWithinPercentRange ==
    (Stored.present /\ HasResult(Stored.v))
    => /\ Stored.v.assessment.v.result.v.overallScore >= 0
       /\ Stored.v.assessment.v.result.v.overallScore <= 100

\* the order of the applicant-flow statuses
StatusRank(status) ==
    CASE status = "PROFILE_SUBMITTED" -> 1
      [] status = "ASSESSMENT_PENDING" -> 2
      [] status = "REVIEWING" -> 3
      [] OTHER -> 4

\* C9: no step of the applicant flow moves the stored status backward in
\* PROFILE_SUBMITTED < ASSESSMENT_PENDING < REVIEWING.
C9_StoredStatusNeverRegresses ==
    [][(Stored.present /\ Stored'.present)
       => StatusRank(Stored'.v.status) >= StatusRank(Stored.v.status)]_vars

\* C10 as stated: in every state a stored record with status REVIEWING
\* carries an assessment with a result.
C10_ReviewingAlwaysHasResult ==
    (Stored.present /\ Stored.v.status = "REVIEWING") => HasResult(Stored.v)

\* C11: a stored record is ONBOARDED or REJECTED only when the last write to
\* the store was the administrator's updateStatus; no write of the applicant
\* flow leaves such a status in the store.
C11_TerminalStatusOnlyByAdministrator ==
    (Stored.present /\ Stored.v.status \in {"ONBOARDED", "REJECTED"})
    => lastWriter = "admin"

\* the administrator onboarded an applicant whose submission was assessed
C11_Witness ==
    /\ Stored.present
    /\ Stored.v.status = "ONBOARDED"
    /\ HasResult(Stored.v)
    /\ lastWriter = "admin"
    /\ step = 5

\* C12: a step writes a record holding an assessment result only as the end
\* of an attempt whose three stages have all returned, and the step that
\* ends an attempt successfully stores exactly one record for the applicant,
\* with a result that has all of its fields.
C12_ResultPersistedWholeAndOnce ==
    [][/\ (store' # store /\ Stored'.present /\ Stored'.v.assessment.present)
          => /\ attempt.pc = "authorship"
             /\ attempt.assessmentAnalysis # None
             /\ attempt.plagiarismResult # None
             /\ attempt' = Idle
             /\ lastOutcome' = [saved |-> TRUE]
       /\ (lastOutcome = [running |-> TRUE] /\ lastOutcome' = [saved |-> TRUE])
          => /\ Cardinality({at \in 1..Len(store') : store'[at].id = ApplicantId}) = 1
             /\ HasResult(Stored'.v)
             /\ DOMAIN Stored'.v.assessment.v.result.v
                   = {"metrics", "plagiarism", "authorshipMatchScore", "rubricScores",
                      "overallScore", "feedback", "timeTakenSeconds", "pasteCount"}
             /\ Stored'.v.assessment.v.result.v.metrics = attempt.assessmentAnalysis.metrics
             /\ Stored'.v.assessment.v.result.v.plagiarism = attempt.plagiarismResult
       /\ (attempt.pc # "idle" /\ attempt'.pc # "idle")
             => store' = store \/ ~HasResult(Stored'.v)]_vars

\* an attempt ended with its result saved
C12_Witness ==
    /\ lastOutcome = [saved |-> TRUE]
    /\ step = 5
    /\ Len(store) = 1
    /\ HasResult(Stored.v)
    /\ Stored.v.assessment.v.result.v.plagiarism.score = 70

\* C13: whatever analyzeWritingStyle returns holds exactly one RubricScore
\* per criterion of the rubric it was given, in the rubric's order.
C13_OneScorePerCriterionInOrder ==
    (call.fn = "analyzeWritingStyle" /\ ~call.result.threw)
    => /\ call.result.value.hasScores
       /\ Len(call.result.value.rubricScores) = Len(call.rubric)
       /\ \A at \in 1..Len(call.rubric) :
              call.result.value.rubricScores[at].criterionId = call.rubric[at].id

\* no id twice and every maxPoints positive
WellFormedRubric(rubric) ==
    /\ \A at, other \in 1..Len(rubric) : rubric[at].id = rubric[other].id => at = other
    /\ \A at \in 1..Len(rubric) : rubric[at].maxPoints > 0

\* C14: after any edits and saves of the administrator, the rubric getRubric
\* returns (the one submitApplication reads) has no duplicate ids and only
\* positive maxPoints.
C14_StoredRubricWellFormed == WellFormedRubric(getRubric(rubricStore))

\* C19: a saveApplicant(profile) step makes getApplicantById return exactly
\* that profile for its id, leaves every other id's record as it was, adds a
\* record only when the id was new, and the store never holds an id twice.
C19_SaveApplicantUpsertsById ==
    [][\A profile \in Profiles :
          putApplicant(profile)
          => /\ getApplicantById(store', profile.id) = Some(profile)
             /\ \A id \in ProfileIds \ {profile.id} :
                    getApplicantById(store', id) = getApplicantById(store, id)
             /\ Len(store') = IF getApplicantById(store, profile.id).present
                              THEN Len(store) ELSE Len(store) + 1
             /\ \A at, other \in 1..Len(store') :
                    store'[at].id = store'[other].id => at = other]_vars

\* three records, the first of them saved again with another status
C19_Witness ==
    /\ Len(store) = 3
    /\ store[1].id = 2
    /\ store[1].status = "REVIEWING"
    /\ store[3].status = "PROFILE_SUBMITTED"
    /\ getApplicantById(store, 2) = Some(store[1])

\* C20: getRubric returns the default rubric (five criteria, 100 points)
\* when nothing is stored, as after clearAll; "Save Rubric" makes it return
\* exactly the saved list, and nothing else changes what it returns.
C20_GetRubricDefaultOrLastSaved ==
    [][/\ ~rubricStore.present
          => /\ getRubric(rubricStore) = DEFAULT_RUBRIC
             /\ Len(getRubric(rubricStore)) = 5
             /\ SumMaxPoints(getRubric(rubricStore)) = 100
       /\ clearAll => ~rubricStore'.present /\ getRubric(rubricStore') = DEFAULT_RUBRIC
       /\ saveRubricSettings => getRubric(rubricStore') = dashboard.v.rubric
       /\ ~(clearAll \/ saveRubricSettings)
          => getRubric(rubricStore') = getRubric(rubricStore)]_vars

\* an emptied rubric was saved and is what getRubric returns
C20_Witness ==
    /\ rubricStore = Some(<<>>)
    /\ getRubric(rubricStore) = <<>>
    /\ dashboard.present
    /\ dashboard.v.edits = 2

\* C15: two runs of the aggregation on the same stage outputs, rubric, start
\* time and paste count give the same AssessmentResult in every field.
C15_AggregationDeterministic ==
    call.fn = "aggregate" => call.first = call.second

\* C18: the end time saved with an assessment, and the end of the interval
\* behind timeTakenSeconds, is the time at which "Submit" was clicked.
C18_EndTimeIsSubmissionTime ==
    [][(attempt.pc = "authorship" /\ lastOutcome' = [saved |-> TRUE])
       => /\ Stored'.v.assessment.v.meta.endTime = attempt.submittedAt
          /\ Stored'.v.assessment.v.result.v.timeTakenSeconds * MsPerSecond
                = attempt.submittedAt - attempt.startTime]_vars

\* the step that saves a submission made under the end-to-end scenario: the
\* default rubric, the scores 18, 16, 25, 10, 12 and two plagiarism sources
SavesEndToEndScenario ==
    /\ attempt.pc = "authorship"
    /\ lastOutcome' = [saved |-> TRUE]
    /\ attempt.currentRubric = DEFAULT_RUBRIC
    /\ attempt.assessmentAnalysis.hasScores
    /\ [at \in 1..Len(attempt.assessmentAnalysis.rubricScores) |->
           attempt.assessmentAnalysis.rubricScores[at].score] = EndToEndScores
    /\ Len(attempt.plagiarismResult.sources) = 2

\* startAssessment moves the stored status from PROFILE_SUBMITTED to
\* ASSESSMENT_PENDING
StartMovesToPending ==
    startAssessment => /\ Stored.v.status = "PROFILE_SUBMITTED"
                       /\ Stored'.v.status = "ASSESSMENT_PENDING"

C17_SamplesAppendOnly ==
    [][/\ Len(formData'.samples) >= Len(formData.samples)
       /\ SubSeq(formData'.samples, 1, Len(formData.samples)) = formData.samples
       /\ (Stored.present /\ Stored'.present)
          => /\ Len(Stored'.v.samples) >= Len(Stored.v.samples)
             /\ SubSeq(Stored'.v.samples, 1, Len(Stored.v.samples)) = Stored.v.samples]_vars

Services == {"style", "plagiarism", "authorship"}

\* how often a service occurs in a log of invocations
Occurrences(log, service) == Cardinality({at \in 1..Len(log) : log[at] = service})

\* C21: no automatic retries.  Within one attempt each external service is
\* invoked at most once; a step in which an attempt fails invokes nothing
\* and leaves no attempt running; and while no attempt is running the only
\* step that invokes a service is the applicant's click on "Submit
\* Application", which starts a new attempt.
C21_NoAutomaticRetries ==
    [][/\ \A service \in Services : Occurrences(invoked', service) <= 1
       /\ (attempt.pc # "idle" /\ lastOutcome' = [failed |-> attempt.pc])
          => /\ attempt' = Idle
             /\ ~loading'
             /\ invoked' = invoked
       /\ (attempt = Idle /\ invoked' # invoked)
          => /\ submitApplication
             /\ attempt'.pc = "style"]_vars

\* an attempt failed after all three services had been invoked once, and the
\* wizard is at rest
C21_Witness ==
    /\ lastOutcome = [failed |-> "authorship"]
    /\ invoked = <<"style", "plagiarism", "authorship">>
    /\ attempt = Idle
    /\ ~loading

StageOrder == <<"style", "plagiarism", "authorship">>

\* the attempt ends in this step because of its style stage: the stage
\* rejected, or what it returned had no rubric scores to aggregate
StyleStageFails ==
    /\ attempt.pc # "idle"
    /\ attempt' = Idle
    /\ \/ lastOutcome' = [failed |-> "style"]
       \/ /\ attempt.assessmentAnalysis # None
          /\ ~attempt.assessmentAnalysis.hasScores

StoredResult == Stored.v.assessment.v.result.v

\* the profile fields a submission has no business with
ProfileFields ==
    {"id", "fullName", "email", "track", "experienceYears", "bio", "samples", "appliedDate"}

\* C23: a successful submission stores the stage outputs and the profile
\* fields as they are.  The attempt holds the profile of the moment "Submit
\* Application" was clicked and what each stage returned; the saved record's
\* rubricScores, metrics and feedback are the style stage's, its plagiarism
\* is the plagiarism stage's, its authorshipMatchScore is the authorship
\* stage's matchScore, and every profile field but status and assessment is
\* the one of the click.
C23_OutputsAndProfileFieldsCopied ==
    [][/\ (attempt = Idle /\ attempt' # Idle)
          => /\ attempt'.formData = formData
             /\ \A field \in ProfileFields : Stored.v[field] = formData[field]
       /\ (attempt.pc = "style" /\ attempt'.pc = "plagiarism")
          => \A resp \in FlowStyleResponses(attempt.currentRubric) :
                \/ resp \in Failures
                \/ attempt'.assessmentAnalysis = resp.body
                \/ ~styleSettles(resp)
       /\ (attempt.pc = "plagiarism" /\ attempt'.pc = "authorship")
          => \A resp \in FlowPlagiarismResponses :
                \/ attempt'.plagiarismResult = checkPlagiarism(Some(attempt.text), resp).value
                \/ ~plagiarismSettles(resp)
       /\ (attempt.pc = "authorship" /\ lastOutcome' = [saved |-> TRUE])
          => /\ StoredResult'.rubricScores = attempt.assessmentAnalysis.rubricScores
             /\ StoredResult'.metrics = attempt.assessmentAnalysis.metrics
             /\ StoredResult'.feedback = attempt.assessmentAnalysis.feedback
             /\ StoredResult'.plagiarism = attempt.plagiarismResult
             /\ DOMAIN Stored'.v = DOMAIN attempt.formData
             /\ \A field \in ProfileFields : Stored'.v[field] = attempt.formData[field]
             /\ \A resp \in FlowAuthorshipResponses :
                   \/ StoredResult'.authorshipMatchScore
                          = compareAuthorship(Some(attempt.formData.samples),
                                              Some(attempt.text), resp).value.matchScore
                   \/ ~authorshipSettles(resp)]_vars

\* a submission for both tracks with one sample was saved with the services'
\* feedback and match score
C23_Witness ==
    /\ lastOutcome = [saved |-> TRUE]
    /\ HasResult(Stored.v)
    /\ Stored.v.track = Some("BOTH")
    /\ Len(Stored.v.samples) = 1
    /\ Stored.v.assessment.v.result.v.feedback = "feedback"
    /\ Stored.v.assessment.v.result.v.authorshipMatchScore = 85

\* C24: the paste counter changes only by a paste event, which adds exactly
\* one; the attempt takes the counter and the text of the moment "Submit
\* Application" was clicked and keeps them while its stages are in flight,
\* whatever is pasted or typed meanwhile; and the saved assessment carries
\* that counter (in the result and in meta) and that text.
C24_PasteCountFrozenAtSubmission ==
    [][/\ pasteCount' # pasteCount => handlePaste /\ pasteCount' = pasteCount + 1
       /\ (attempt = Idle /\ attempt' # Idle)
          => attempt'.pasteCount = pasteCount /\ attempt'.text = assessmentText
       /\ (attempt # Idle /\ attempt' # Idle)
          => attempt'.pasteCount = attempt.pasteCount /\ attempt'.text = attempt.text
       /\ (attempt.pc = "authorship" /\ lastOutcome' = [saved |-> TRUE])
          => /\ Stored'.v.assessment.v.result.v.pasteCount = attempt.pasteCount
             /\ Stored'.v.assessment.v.meta.pasteCount = attempt.pasteCount
             /\ Stored'.v.assessment.v.submission = attempt.text]_vars

\* a submission was saved with no paste and its 100 characters, although a
\* paste happened and the text was cleared while the stages were in flight
C24_Witness ==
    /\ lastOutcome = [saved |-> TRUE]
    /\ HasResult(Stored.v)
    /\ Stored.v.assessment.v.result.v.pasteCount = 0
    /\ Stored.v.assessment.v.meta.pasteCount = 0
    /\ Stored.v.assessment.v.submission = 100
    /\ pasteCount = 1
    /\ assessmentText = 0

\* C25: a response of the plagiarism service that carries no grounding
\* metadata is a successful check without sources (score 0, the service's
\* own analysis text), not the error result; and the sources of a grounded
\* response are the (title, uri) pairs of exactly the chunks that have a web
\* entry, in the order of the chunks.
C25_GroundingMetadataTolerated ==
    (call.fn = "checkPlagiarism" /\ call.result.called /\ call.resp.kind = "ok")
    => LET body == call.resp.body
           sources == call.result.value.sources
       IN  /\ ~call.result.threw
           /\ ~body.chunks.present
              => /\ sources = <<>>
                 /\ call.result.value.score = 0
                 /\ call.result.value # PlagiarismCheckError
                 /\ body.text # "" => call.result.value.analysis = body.text
           /\ body.chunks.present
              => LET chunks == body.chunks.v
                     cited == {at \in 1..Len(chunks) : chunks[at].web.present}
                 IN  /\ Len(sources) = Cardinality(cited)
                     /\ \A at \in cited :
                           sources[Cardinality({before \in cited : before <= at})]
                              = [title |-> chunks[at].web.v.title,
                                 uri |-> chunks[at].web.v.uri]

\* the service answered a long enough text without grounding metadata
C25_Witness ==
    /\ call.fn = "checkPlagiarism"
    /\ call.result.called
    /\ call.resp.kind = "ok"
    /\ ~call.resp.body.chunks.present
    /\ call.result.value = [score |-> 0, sources |-> <<>>, analysis |-> "found"]

\* C26: at most one submission attempt is in flight.  The loading flag is
\* set exactly while an attempt runs; a pipeline run starts only on step 4
\* while no attempt runs and the flag is clear; and once the success screen
\* is shown no attempt runs or starts any more.
C26_OneAttemptInFlight ==
    [][/\ loading' <=> attempt' # Idle
       /\ (attempt'.pc = "style" /\ attempt' # attempt)
          => attempt = Idle /\ ~loading /\ step = 4
       /\ step = 5 => attempt' = Idle /\ step' = 5]_vars

\* an attempt is waiting for the plagiarism service while the text in the
\* textarea is long enough to be submitted
C26_Witness ==
    /\ step = 4
    /\ loading
    /\ attempt.pc = "plagiarism"
    /\ assessmentText >= SubmitMinLength

\* the "Submit Application" button is enabled
SubmitEnabled == step = 4 /\ assessmentText >= SubmitMinLength /\ ~loading

\* C27: when every external call eventually returns or fails, every started
\* attempt eventually ends with the loading flag and the progress text
\* cleared, on the success path and on the failure path alike; the step in
\* which an attempt fails leaves the wizard on step 4 with the button
\* enabled again whenever the text is still long enough.
C27_AttemptEventuallyEnds ==
    /\ (attempt # Idle) ~> (attempt = Idle /\ ~loading /\ progressStatus = "")
    /\ [][/\ (attempt # Idle /\ attempt' = Idle) => ~loading' /\ progressStatus' = ""
          /\ (attempt # Idle /\ lastOutcome' = [failed |-> attempt.pc])
             => /\ step' = 4
                /\ assessmentText' >= SubmitMinLength => SubmitEnabled']_vars

\* an attempt failed at the style stage and the button is enabled again
C27_Witness ==
    /\ lastOutcome = [failed |-> "style"]
    /\ attempt = Idle
    /\ progressStatus = ""
    /\ SubmitEnabled

\* C28: in every stored assessment with a result the telemetry of the result
\* agrees with the snapshot in meta: the same paste count, a time taken that
\* is meta's elapsed time (endTime - startTime) in seconds, and not negative.
C28_ResultTelemetryAgreesWithMeta ==
    (Stored.present /\ HasResult(Stored.v))
    => LET result == Stored.v.assessment.v.result.v
           meta == Stored.v.assessment.v.meta
       IN  /\ result.pasteCount = meta.pasteCount
           /\ result.timeTakenSeconds * MsPerSecond = meta.endTime - meta.startTime
           /\ result.timeTakenSeconds >= 0

\* C29: the administrator's status update changes nothing but the status:
\* whatever the applicant wrote before it, the samples and the assessment
\* stored for the applicant just before the update are stored just after it.
C29_UpdateStatusKeepsSamplesAndAssessment ==
    [][(applicant.present /\ lastWriter' = "admin"
        /\ \E status \in ApplicationStatus : updateStatus(status))
       => /\ Stored'.present
          /\ Stored'.v.samples = Stored.v.samples
          /\ Stored'.v.assessment = Stored.v.assessment]_vars

\* C30: the ids of the rubric being edited stay pairwise distinct: starting
\* from the stored rubric, whose ids are distinct, no sequence of
\* addRubricItem, deleteRubricItem and handleRubricChange makes two criteria
\* share an id, neither in the editor nor in what "Save Rubric" stores.
C30_RubricIdsStayUnique ==
    /\ dashboard.present =>
           \A at, other \in 1..Len(dashboard.v.rubric) :
               dashboard.v.rubric[at].id = dashboard.v.rubric[other].id => at = other
    /\ LET stored == getRubric(rubricStore)
       IN  \A at, other \in 1..Len(stored) : stored[at].id = stored[other].id => at = other

\* a criterion added after an earlier one was deleted and another was edited
C30_Witness ==
    /\ dashboard.present
    /\ dashboard.v.edits = 3
    /\ Len(dashboard.v.rubric) = Len(DEFAULT_RUBRIC)
    /\ 2 \notin ShownIds
    /\ Len(DEFAULT_RUBRIC) + 1 \in ShownIds
    /\ \E at \in 1..Len(dashboard.v.rubric) : dashboard.v.rubric[at].maxPoints = 0

====
